---- MODULE Spec2Model ----
(***************************************************************************)
(* Model of file-backup (src/src/main.rs): the run driver `main`, the two  *)
(* reconciliation functions backup_dataset and backup_restic, the history  *)
(* table backup_history, and the pure helpers that turn a `zfs diff`       *)
(* change list into a sync list and a deletion list.                       *)
(*                                                                         *)
(* The program is single threaded.  Every blocking call (a subprocess, a   *)
(* database statement, a filesystem call) is one action; its outcome is    *)
(* chosen by the environment.  `ops` is the log of the calls issued by the *)
(* reconciliation that is running or has just returned.                    *)
(*                                                                         *)
(* Strings that the code takes apart (paths, diff lines) are sequences of  *)
(* one-character strings.  Snapshot identifiers are opaque to the code     *)
(* paths modelled here and are numbers, numbered in creation order.        *)
(*                                                                         *)
(* backup_timestamp (CURRENT_TIMESTAMP) is taken to be distinct for the    *)
(* records of one source, so that ORDER BY backup_timestamp DESC is the    *)
(* reverse of the insertion order.                                         *)
(***************************************************************************)
EXTENDS Integers, Sequences, FiniteSets, TLC

\* ---------------------------------------------------------------- bounds
MaxSnap == 3
MaxRuns == 3
MaxChanges == 1
MaxRunsBoth == 1

Snaps == 1..MaxSnap
NoSnap == 0

\* ------------------------------------------------------- character strings
TAB == "\t"
Slash == <<"/">>
Arrow == <<" ", "-", ">", " ">>

StartsWith(s, p) == Len(s) >= Len(p) /\ SubSeq(s, 1, Len(p)) = p
EndsWith(s, p) == Len(s) >= Len(p) /\ SubSeq(s, Len(s) - Len(p) + 1, Len(s)) = p

\* str::strip_prefix: <<TRUE, rest>> for Some(rest), <<FALSE, <<>>>> for None
strip_prefix(s, p) ==
    IF StartsWith(s, p) THEN <<TRUE, SubSeq(s, Len(p) + 1, Len(s))>>
                        ELSE <<FALSE, <<>>>>

\* index of the first occurrence of sep in s, 0 if there is none
Find(s, sep) ==
    LET hits == {i \in 1..(Len(s) - Len(sep) + 1) : SubSeq(s, i, i + Len(sep) - 1) = sep}
    IN IF hits = {} THEN 0 ELSE CHOOSE i \in hits : \A j \in hits : i <= j

\* str::split(sep).collect()
RECURSIVE Split(_, _)
Split(s, sep) ==
    LET i == Find(s, sep)
    IN IF i = 0 THEN <<s>>
       ELSE <<SubSeq(s, 1, i - 1)>> \o Split(SubSeq(s, i + Len(sep), Len(s)), sep)

\* file_path.strip_prefix(mountpoint).and_then(|s| s.strip_prefix('/')).unwrap_or(file_path)
strip_mountpoint_prefix(file_path, mountpoint) ==
    LET a == strip_prefix(file_path, mountpoint)
        b == strip_prefix(a[2], Slash)
    IN IF a[1] /\ b[1] THEN b[2] ELSE file_path

\* Some((change_type, file_path)) is <<TRUE, change_type, file_path>>
parse_zfs_diff_line(line) ==
    LET parts == Split(line, <<TAB>>)
    IN IF Len(parts) >= 2 /\ Len(parts[1]) > 0
       THEN <<TRUE, parts[1][1], parts[2]>>
       ELSE <<FALSE, "", <<>>>>

\* the paths one change line contributes to files_to_sync
SyncOfLine(change, mountpoint) ==
    LET p == parse_zfs_diff_line(change)
        rel == strip_mountpoint_prefix(p[3], mountpoint)
        halves == Split(p[3], Arrow)
        relnew == strip_mountpoint_prefix(halves[2], mountpoint)
    IN IF ~p[1] THEN <<>>
       ELSE IF p[2] \in {"+", "M"}
            THEN IF rel # <<>> /\ ~EndsWith(rel, Slash) THEN <<rel>> ELSE <<>>
       ELSE IF p[2] = "R" /\ Len(halves) >= 2
            THEN IF relnew # <<>> /\ ~EndsWith(relnew, Slash) THEN <<relnew>> ELSE <<>>
       ELSE <<>>

RECURSIVE extract_files_for_sync(_, _)
extract_files_for_sync(chs, mountpoint) ==
    IF chs = <<>> THEN <<>>
    ELSE SyncOfLine(Head(chs), mountpoint) \o extract_files_for_sync(Tail(chs), mountpoint)

\* the paths one change line contributes to files_to_delete
DeleteOfLine(change, mountpoint) ==
    LET p == parse_zfs_diff_line(change)
        rel == strip_mountpoint_prefix(p[3], mountpoint)
    IN IF p[1] /\ p[2] = "-" /\ rel # <<>> THEN <<rel>> ELSE <<>>

RECURSIVE extract_files_for_deletion(_, _)
extract_files_for_deletion(chs, mountpoint) ==
    IF chs = <<>> THEN <<>>
    ELSE DeleteOfLine(Head(chs), mountpoint) \o extract_files_for_deletion(Tail(chs), mountpoint)

\* run_rsync_with_file_list writes file.strip_prefix('/').unwrap_or(file) per file
ListedPath(file) ==
    LET a == strip_prefix(file, Slash) IN IF a[1] THEN a[2] ELSE file

ListedPaths(files) == [i \in 1..Len(files) |-> ListedPath(files[i])]

\* ------------------------------------------------------------ configuration
\* Config.dataset and Config.restic entries (DatasetConfig, ResticConfig)
DS == [kind |-> "dataset", name |-> "tank/ds", target_dir |-> "/backup/ds"]
RS == [kind |-> "restic", name |-> "/srv/repo", target_dir |-> "/backup/repo"]
SourceNames == {DS.name, RS.name}

\* main processes config.dataset first, then config.restic
Configs == {<<DS>>, <<RS>>}

\* the dataset's name and the names of its snapshots as character strings.
\* The head query returns the last line `zfs list` printed: snapshot n is
\* listed as tank/ds@s<n>; a line without '@' and a line with two are the
\* inputs that get_snapshot_mountpoint rejects.
At == <<"@">>
Digits == <<"1", "2", "3", "4", "5", "6">>
DSName == <<"t", "a", "n", "k", "/", "d", "s">>
Label(n) == <<"s", Digits[n]>>
SnapshotNames(n) ==
    { DSName \o At \o Label(n), DSName \o Label(n), DSName \o At \o Label(n) \o At \o <<"x">> }

\* the three mount points of backup_restic
MountLatest == "/tmp/restic-mount-latest"
MountOld == "/tmp/restic-mount-old"
MountNew == "/tmp/restic-mount-new"

\* --------------------------------------------------- environment's answers
TargetStates == {"dir", "missing", "file"}

MntRoot == <<"/", "m", "n", "t">>
Mountpoints == {MntRoot, Slash}

\* get_dataset_mountpoint: Err, or Ok(the trimmed output of zfs get)
MountpointAnswers == {<<"err", <<>>>>} \cup {<<"ok", m>> : m \in Mountpoints}

ZfsSnapshotDir == <<"/", ".", "z", "f", "s", "/", "s", "n", "a", "p", "s", "h", "o", "t", "/">>

\* get_snapshot_mountpoint: snapshot.split('@') must give exactly two parts;
\* then format!("{}/.zfs/snapshot/{}", mountpoint, snapshot_name), where mp is
\* what get_dataset_mountpoint(parts[0]) returns
get_snapshot_mountpoint_first_two_parts(snapshot, mp) ==
    LET parts == Split(snapshot, At)
    IN IF Len(parts) < 2 \/ mp[1] # "ok" THEN <<"err", <<>>>>
       ELSE <<"ok", mp[2] \o ZfsSnapshotDir \o parts[2]>>

get_snapshot_mountpoint(snapshot, mp) ==
    LET parts == Split(snapshot, At)
    IN IF Len(parts) # 2 \/ mp[1] # "ok" THEN <<"err", <<>>>>
       ELSE <<"ok", mp[2] \o ZfsSnapshotDir \o parts[2]>>

Line(t, path) == <<t, TAB>> \o path
\* a file and a directory added under /mnt, a file removed under /mnt, a file
\* removed outside /mnt, a file renamed under /mnt
ChangeLines ==
    { Line("+", MntRoot \o <<"/", "a">>), Line("+", MntRoot \o Slash),
      Line("-", MntRoot \o <<"/", "a">>), Line("-", <<"/", "a">>),
      Line("R", MntRoot \o <<"/", "a">> \o Arrow \o MntRoot \o <<"/", "b">>) }

\* the change list of the partition example: + /a, M /b, - /c, R /d -> /e
ExampleChanges ==
    << Line("+", <<"/", "a">>), Line("M", <<"/", "b">>), Line("-", <<"/", "c">>),
       Line("R", <<"/", "d">> \o Arrow \o <<"/", "e">>) >>

\* a change list that removes two files
TwoRemovals ==
    << Line("-", MntRoot \o <<"/", "a">>), Line("-", MntRoot \o <<"/", "b">>) >>

SeqsUpTo(S, n) == UNION {[1..k -> S] : k \in 0..n}

\* what `zfs diff -H old new` can print (non-empty lines)
DiffOutputs == SeqsUpTo(ChangeLines, MaxChanges) \cup {ExampleChanges, TwoRemovals}

\* the files a mounted restic snapshot can hold under snapshots/latest/, in
\* the order rsync lists them
OrderedPaths == << <<"a">>, <<"b">> >>
ResticPaths == {OrderedPaths[i] : i \in 1..Len(OrderedPaths)}
PathList(S) == SelectSeq(OrderedPaths, LAMBDA p : p \in S)

\* what the two mounts can show: the files of the old tree, the files of the
\* new tree, and the files of both whose content or attributes differ
Trees ==
    UNION {{[old |-> o, new |-> n, modified |-> m] : m \in SUBSET (o \cap n)} :
              o \in SUBSET ResticPaths, n \in SUBSET ResticPaths}
NoTrees == [old |-> {}, new |-> {}, modified |-> {}]

\* `rsync -aAXHn --itemize-changes src dst`: one line per file of src that dst
\* lacks or holds differently (every such line is taken to yield its path)
rsync_itemize(src, dst, modified) == PathList((src \ dst) \cup modified)

\* `rsync -aAXHn --itemize-changes --delete src dst`: a "*deleting" line per
\* file of dst that src lacks
rsync_deleting(src, dst) == PathList(dst \ src)

\* get_restic_diff_via_rsync: the first run has the new tree as its source
\* and the old tree as its destination; the second run, with --delete, has
\* the old tree as its source and the new tree as its destination
get_restic_diff_via_rsync(t) ==
    << rsync_itemize(t.new, t.old, t.modified), rsync_deleting(t.old, t.new) >>

\* -------------------------------------------------------------------- state
VARIABLES
    config,             \* the loaded Config: the sources of this database file
    run,                \* number of process runs started so far
    idx,                \* position of main's loop in config
    pc,                 \* control point of the process
    history,            \* rows of backup_history, in insertion order
    exists,             \* backend: the snapshots each source holds
    last_backup,        \* backup_*: last_backup (NoSnap is None)
    latest_snapshot,    \* backup_*: latest_snapshot
    rows,               \* get_last_backed_up_snapshot: rows not yet fetched
    mode,               \* arm of `match last_backup` taken
    changes,            \* backup_*: changes
    dataset_mountpoint, \* backup_dataset: dataset_mountpoint
    files_to_sync,      \* backup_dataset: files_to_sync
    files_to_delete,    \* backup_dataset: files_to_delete
    guards,             \* ResticMountGuard values alive, in order of creation
    ops,                \* calls issued by the current reconciliation
    result,             \* what the last backup_* call returned
    hist0,              \* history when the current reconciliation began
    applied,            \* the transfer step of the current reconciliation completed
    attempts,           \* main: the sources this run has called, with the results
    trees,              \* what the old and the new restic mount show
    source_path         \* backup_dataset: source_path

vars == << config, run, idx, pc, history, exists, last_backup, latest_snapshot, rows,
           mode, changes, dataset_mountpoint, files_to_sync, files_to_delete, guards,
           ops, result, hist0, applied, attempts, trees, source_path >>

cur == config[idx]

Op(o, a, r) == [op |-> o, arg |-> a, res |-> r]

OpsOf(log, kinds) == SelectSeq(log, LAMBDA e : e.op \in kinds)

Max(S) == CHOOSE x \in S : \A y \in S : y <= x

Reverse(s) == [i \in 1..Len(s) |-> s[Len(s) + 1 - i]]

\* BackupRecord: one row of backup_history
Rec(src, snap) ==
    [backup_type |-> src.kind, source_name |-> src.name, snapshot_name |-> snap,
     target_dir |-> src.target_dir]

Key(r) == <<r.backup_type, r.source_name, r.snapshot_name>>

\* SELECT snapshot_name ... WHERE backup_type = ?1 AND source_name = ?2
\* ORDER BY backup_timestamp DESC
HistoryRowsAsc(h, backup_type, source_name) ==
    LET mine == SelectSeq(h, LAMBDA r : r.backup_type = backup_type /\ r.source_name = source_name)
    IN [i \in 1..Len(mine) |-> mine[i].snapshot_name]

HistoryRows(h, backup_type, source_name) ==
    LET mine == SelectSeq(h, LAMBDA r : r.backup_type = backup_type /\ r.source_name = source_name)
    IN Reverse([i \in 1..Len(mine) |-> mine[i].snapshot_name])

\* snapshot_exists: the results the call can return for a snapshot.  A zfs or
\* restic command that runs and fails counts as Ok(false); Err is a failure to
\* start the command.
snapshot_exists(snapshot, present) ==
    {"false", "err"} \cup (IF snapshot \in present THEN {"true"} ELSE {})

\* get_latest_snapshot: Err, or the last non-empty line of the listing:
\* Ok(Some(newest)), or Ok(None) when nothing is listed
get_latest(present) ==
    {<<"err", NoSnap>>}
    \cup (IF present = {} THEN {<<"none", NoSnap>>} ELSE {<<"some", Max(present)>>})

\* get_latest_restic_snapshot: as above, and Ok(None) also when the output
\* is empty, is "null", or holds no "id":" field
get_latest_restic_snapshot(present) == get_latest(present) \cup {<<"none", NoSnap>>}

\* check_target_directory: the path exists and is a directory
check_target_directory_exists_only(t) == t # "missing"

check_target_directory(t) == t = "dir"

\* INSERT INTO backup_history under UNIQUE(backup_type, source_name, snapshot_name):
\* the set of <<result, table afterwards>> the statement can produce
record_successful_backup_replace(h, r) ==
    {<<"ok", Append(SelectSeq(h, LAMBDA x : Key(x) # Key(r)), r)>>, <<"err", h>>}

record_successful_backup_no_unique(h, r) == {<<"ok", Append(h, r)>>, <<"err", h>>}

record_successful_backup(h, r) ==
    IF \E i \in 1..Len(h) : Key(h[i]) = Key(r)
    THEN {<<"err", h>>}
    ELSE {<<"ok", Append(h, r)>>, <<"err", h>>}

\* match last_backup { None => full, Some(last_snap) => if last_snap == latest ... }
DetermineModeNoSkip(last, latest) ==
    IF last = NoSnap THEN "Full" ELSE "Incremental"

DetermineMode(last, latest) ==
    IF last = NoSnap THEN "Full"
    ELSE IF last = latest THEN "Skip"
    ELSE "Incremental"

\* the `?` operator and `return Err(e)`: leave the function on an error
OnResultIgnore(ok, next) == next

OnResult(ok, next) == IF ok THEN next ELSE "ret_err"

\* Drop for ResticMountGuard: locals are dropped in reverse order of declaration
DropGuardsFirstOnly(g) ==
    IF g = <<>> THEN <<>> ELSE <<Op("unmount", g[Len(g)], "issued")>>

DropGuards(g) == [i \in 1..Len(g) |-> Op("unmount", g[Len(g) + 1 - i], "issued")]

\* before the runs looked at: nothing called yet
Start ==
    /\ run = 0
    /\ idx = 1
    /\ pc = "stopped"
    /\ exists = [n \in SourceNames |-> {}]
    /\ last_backup = NoSnap
    /\ latest_snapshot = NoSnap
    /\ rows = <<>>
    /\ mode = "none"
    /\ changes = <<>>
    /\ dataset_mountpoint = <<>>
    /\ files_to_sync = <<>>
    /\ files_to_delete = <<>>
    /\ guards = <<>>
    /\ ops = <<>>
    /\ result = "none"
    /\ hist0 = <<>>
    /\ applied = FALSE
    /\ attempts = <<>>
    /\ trees = NoTrees
    /\ source_path = <<>>

\* a new database: init_database creates an empty backup_history
Init == config \in Configs /\ history = <<>> /\ Start

locals == << last_backup, latest_snapshot, rows, mode, changes, dataset_mountpoint,
             files_to_sync, files_to_delete, guards, applied, trees, source_path >>
world == << config, run, idx, exists, attempts >>

\* a call returned: log it and go on
Go(next, o) == pc' = next /\ ops' = Append(ops, o)

\* --------------------------------------------------------------------- main
\* the number of runs looked at, by the number of configured sources
RunLimit == IF Len(config) > 1 THEN MaxRunsBoth ELSE MaxRuns

\* A run of the process starts: the installation checks pass, the database
\* opens, the configuration loads.
main_start ==
    /\ pc \in {"stopped", "exited"}
    /\ run < RunLimit
    /\ run' = run + 1
    /\ idx' = 1
    /\ attempts' = <<>>
    /\ pc' = "main_loop"
    /\ UNCHANGED << config, exists, history, locals, ops, result, hist0 >>

\* A run that ends in exit(1) before the loops: rsync or restic is not
\* installed, the database cannot be initialized, the configuration cannot
\* be loaded or names no source.
main_exit ==
    /\ pc \in {"stopped", "exited"}
    /\ run < RunLimit
    /\ run' = run + 1
    /\ idx' = 1
    /\ attempts' = <<>>
    /\ pc' = "exited"
    /\ UNCHANGED << config, exists, history, locals, ops, result, hist0 >>

\* for dataset_config in &config.dataset / for restic_config in &config.restic:
\* the call of backup_dataset or backup_restic begins.  Since the source was
\* last looked at its backend has changed: it may hold any set of snapshots,
\* which stays as it is while the call runs.  Only the snapshots of the
\* source of the call are kept.
main_call ==
    /\ pc = "main_loop"
    /\ idx <= Len(config)
    /\ pc' = "check_target"
    /\ hist0' = history
    /\ UNCHANGED << locals, ops, result >>
    /\ \E present \in SUBSET Snaps :
         exists' = [n \in SourceNames |-> IF n = cur.name THEN present ELSE {}]
    /\ UNCHANGED << config, run, idx, attempts, history >>

\* Ok(()) => {}, Err(e) => { "Error: ..", "Skipping .." }: either way the
\* for loop goes on to its next element
after_result_break_on_err(res, i) == IF res = "Err" THEN Len(config) + 1 ELSE i + 1

after_result(res, i) == i + 1

\* the match on the call's result, then the next source; the locals of the
\* call and the log of its calls are gone
main_next ==
    /\ pc = "returned"
    /\ idx' = after_result(result, idx)
    /\ attempts' = Append(attempts, [name |-> cur.name, result |-> result])
    /\ pc' = "main_loop"
    /\ last_backup' = NoSnap
    /\ latest_snapshot' = NoSnap
    /\ rows' = <<>>
    /\ mode' = "none"
    /\ changes' = <<>>
    /\ dataset_mountpoint' = <<>>
    /\ files_to_sync' = <<>>
    /\ files_to_delete' = <<>>
    /\ guards' = <<>>
    /\ applied' = FALSE
    /\ trees' = NoTrees
    /\ source_path' = <<>>
    /\ ops' = <<>>
    /\ result' = "none"
    /\ exists' = [n \in SourceNames |-> {}]
    /\ UNCHANGED << config, run, history, hist0 >>

\* println!("Done!")
main_done ==
    /\ pc = "main_loop"
    /\ idx > Len(config)
    /\ pc' = "stopped"
    /\ UNCHANGED << world, history, locals, ops, result, hist0 >>

\* ------------------------------------------- steps shared by both functions
\* Err(e) => { "Warning: Failed to query database"; None }: where the caller
\* of get_last_backed_up_snapshot goes on after the function returned Err
after_query_error_abort == "ret_err"

after_query_error == "latest"

\* get_last_backed_up_snapshot: prepare and query.  An Err is turned into
\* None by the caller ("Warning: Failed to query database").
get_last_backed_up_snapshot_query ==
    /\ pc = "query"
    /\ \/ /\ rows' = HistoryRows(history, cur.kind, cur.name)
          /\ Go("walk", Op("query", <<>>, "ok"))
       \/ /\ rows' = <<>>
          /\ Go(after_query_error, Op("query", <<>>, "err"))
    /\ UNCHANGED << world, history, last_backup, latest_snapshot, mode, changes,
                    dataset_mountpoint, files_to_sync, files_to_delete, guards,
                    applied, result, hist0, trees, source_path >>

\* Ok(false) => continue, Err(e) => { warning; continue }: the rows left for
\* the loop after a check that did not return Ok(true)
rows_after_check_stop_on_err(r, rs) == IF r = "err" THEN <<>> ELSE Tail(rs)

rows_after_check(r, rs) == Tail(rs)

\* one turn of `while let Some(row) = rows.next()?`
get_last_backed_up_snapshot_next ==
    /\ pc = "walk"
    /\ \/ /\ rows = <<>>
          /\ Go("latest", Op("rows_end", <<>>, "ok"))
          /\ UNCHANGED << rows, last_backup >>
       \/ /\ rows # <<>>
          /\ Go(after_query_error, Op("rows_next", <<>>, "err"))
          /\ rows' = <<>>
          /\ UNCHANGED last_backup
       \/ /\ rows # <<>>
          /\ \E r \in snapshot_exists(Head(rows), exists[cur.name]) :
               /\ ops' = Append(ops, Op("exists", Head(rows), r))
               /\ IF r = "true"
                  THEN /\ last_backup' = Head(rows)
                       /\ rows' = <<>>
                       /\ pc' = "latest"
                  ELSE /\ rows' = rows_after_check(r, rows)
                       /\ UNCHANGED << last_backup, pc >>
    /\ UNCHANGED << world, history, latest_snapshot, mode, changes,
                    dataset_mountpoint, files_to_sync, files_to_delete, guards,
                    applied, result, hist0, trees, source_path >>

\* Ok(Some(snapshot)) => snapshot, Ok(None) => return Err("No snapshots
\* found ..."), Err(e) => return Err(e)
after_latest_none_is_ok(tag) == IF tag = "none" THEN "ret_ok" ELSE OnResult(tag = "some", "match")

after_latest(tag) == OnResult(tag = "some", "match")

\* get_latest_snapshot / get_latest_restic_snapshot and the match on its result
get_latest_snapshot ==
    /\ pc = "latest"
    /\ \E r \in IF cur.kind = "restic" THEN get_latest_restic_snapshot(exists[cur.name])
                                        ELSE get_latest(exists[cur.name]) :
         /\ Go(after_latest(r[1]), Op("latest", r[2], r[1]))
         /\ latest_snapshot' = r[2]
    /\ UNCHANGED << world, history, last_backup, rows, mode, changes,
                    dataset_mountpoint, files_to_sync, files_to_delete, guards,
                    applied, result, hist0, trees, source_path >>

\* the function returns: its guards are dropped, main sees the result
backup_return ==
    /\ pc \in {"ret_ok", "ret_err"}
    /\ ops' = ops \o DropGuards(guards)
    /\ guards' = <<>>
    /\ result' = IF pc = "ret_ok" THEN "Ok" ELSE "Err"
    /\ pc' = "returned"
    /\ UNCHANGED << world, history, last_backup, latest_snapshot, rows, mode, changes,
                    dataset_mountpoint, files_to_sync, files_to_delete, applied, hist0, trees, source_path >>

\* ----------------------------------------------------------- backup_dataset
backup_dataset_check_target ==
    /\ pc = "check_target"
    /\ cur.kind = "dataset"
    /\ \E t \in TargetStates :
         Go(OnResult(check_target_directory(t), "check_mounted"), Op("check_target", t, "done"))
    /\ UNCHANGED << world, history, locals, result, hist0 >>

\* Ok(true) => go on, Ok(false) => return Err("Dataset .. is NOT mounted"),
\* Err(e) => return Err(e)
after_mounted_only_err_fails(m) == OnResult(m # "err", "query")

after_mounted(m) == OnResult(m = "yes", "query")

\* is_dataset_mounted: Ok(true), Ok(false) or Err
backup_dataset_check_mounted ==
    /\ pc = "check_mounted"
    /\ \E m \in {"yes", "no", "err"} :
         Go(after_mounted(m), Op("mounted", <<>>, m))
    /\ UNCHANGED << world, history, locals, result, hist0 >>

\* first step of each arm of `match last_backup` in backup_dataset
backup_dataset_arm_incremental_mirrors(m) ==
    CASE m = "Full" -> "ds_full_resolve"
      [] m = "Skip" -> "ret_ok"
      [] m = "Incremental" -> "ds_full_resolve"

backup_dataset_arm(m) ==
    CASE m = "Full" -> "ds_full_resolve"
      [] m = "Skip" -> "ret_ok"
      [] m = "Incremental" -> "ds_diff"

backup_dataset_match ==
    /\ pc = "match"
    /\ cur.kind = "dataset"
    /\ mode' = DetermineMode(last_backup, latest_snapshot)
    /\ pc' = backup_dataset_arm(mode')
    /\ UNCHANGED << world, history, last_backup, latest_snapshot, rows, changes,
                    dataset_mountpoint, files_to_sync, files_to_delete, guards,
                    applied, ops, result, hist0, trees, source_path >>

\* let snapshot_mountpoint = get_snapshot_mountpoint(&latest_snapshot)?;
\* let source_path = format!("{}/", snapshot_mountpoint);
\* a mountpoint this call has already read (dataset_mountpoint) has not
\* changed since
Resolve(next) ==
    \E name \in SnapshotNames(latest_snapshot) :
    \E mp \in IF dataset_mountpoint # <<>>
               THEN {<<"err", <<>>>>, <<"ok", dataset_mountpoint>>}
               ELSE MountpointAnswers :
        LET r == get_snapshot_mountpoint(name, mp)
        IN /\ Go(OnResult(r[1] = "ok", next), Op("resolve", name, r[1]))
           /\ source_path' = IF r[1] = "ok" THEN r[2] \o Slash ELSE <<>>

\* get_snapshot_mountpoint(&latest_snapshot)? of the full arm
backup_dataset_full_resolve ==
    /\ pc = "ds_full_resolve"
    /\ Resolve("ds_full_rsync")
    /\ UNCHANGED << world, history, last_backup, latest_snapshot, rows, mode, changes,
                    dataset_mountpoint, files_to_sync, files_to_delete, guards,
                    applied, result, hist0, trees >>

\* run_rsync(&source_path, &dataset_config.target_dir)?
backup_dataset_full_rsync ==
    /\ pc = "ds_full_rsync"
    /\ \E ok \in BOOLEAN :
         /\ Go(OnResult(ok, "ds_full_record"),
               Op("rsync_all", source_path, IF ok THEN "ok" ELSE "err"))
         /\ applied' = ok
    /\ UNCHANGED << world, history, last_backup, latest_snapshot, rows, mode, changes,
                    dataset_mountpoint, files_to_sync, files_to_delete, guards,
                    result, hist0, trees, source_path >>

\* record_successful_backup(conn, "dataset", name, &latest_snapshot, target_dir)?
backup_dataset_full_record ==
    /\ pc = "ds_full_record"
    /\ \E out \in record_successful_backup(history, Rec(cur, latest_snapshot)) :
         /\ history' = out[2]
         /\ Go(OnResult(out[1] = "ok", "ret_ok"), Op("record", latest_snapshot, out[1]))
    /\ UNCHANGED << world, locals, result, hist0 >>

\* get_snapshot_diff(&last_snap, &latest_snapshot)? and `if changes.is_empty()`
backup_dataset_diff ==
    /\ pc = "ds_diff"
    /\ \/ /\ Go("ret_err", Op("diff", <<last_backup, latest_snapshot>>, "err"))
          /\ UNCHANGED changes
       \/ \E c \in DiffOutputs :
            /\ changes' = c
            /\ Go(IF c = <<>> THEN "ret_ok" ELSE "ds_mountpoint",
                  Op("diff", <<last_backup, latest_snapshot>>, "ok"))
    /\ UNCHANGED << world, history, last_backup, latest_snapshot, rows, mode,
                    dataset_mountpoint, files_to_sync, files_to_delete, guards,
                    applied, result, hist0, trees, source_path >>

\* get_dataset_mountpoint(&dataset_config.name)?, then the two extractions
backup_dataset_extract ==
    /\ pc = "ds_mountpoint"
    /\ \/ /\ Go("ret_err", Op("mountpoint", <<>>, "err"))
          /\ UNCHANGED << dataset_mountpoint, files_to_sync, files_to_delete >>
       \/ \E m \in Mountpoints :
            /\ dataset_mountpoint' = m
            /\ files_to_sync' = extract_files_for_sync(changes, m)
            /\ files_to_delete' = extract_files_for_deletion(changes, m)
            /\ Go("ds_delete", Op("mountpoint", <<>>, "ok"))
    /\ UNCHANGED << world, history, last_backup, latest_snapshot, rows, mode, changes,
                    guards, applied, result, hist0, trees, source_path >>

\* DS.target_dir as a character string
TargetDir == <<"/", "b", "a", "c", "k", "u", "p", "/", "d", "s">>

\* target_dir.join(file) of delete_files_from_target: Path::join puts file
\* under the base when file is relative, and replaces the base by file when
\* file is absolute
join(base, file) ==
    IF StartsWith(file, Slash) THEN file
    ELSE IF EndsWith(base, Slash) THEN base \o file
    ELSE base \o Slash \o file

\* what deleting one path of the target can come to: removed, already absent,
\* or an error of remove_dir_all / remove_file
DeleteOutcomes == {"deleted", "gone", "failed"}

\* delete_files_from_target: the loop goes over every file, whatever the
\* earlier ones came to
delete_files_from_target_stop_at_failure(files, outcome) ==
    LET bad == {i \in 1..Len(files) : outcome[i] = "failed"}
        n == IF bad = {} THEN Len(files) ELSE CHOOSE i \in bad : \A j \in bad : i <= j
    IN [i \in 1..n |-> Op("delete", files[i], outcome[i])]

delete_files_from_target(files, outcome) ==
    [i \in 1..Len(files) |-> Op("delete", files[i], outcome[i])]

\* deleted_count and error_count of delete_files_from_target: "Already gone"
\* counts as deleted; the function returns Err when error_count > 0
deleted_count(outcome) == Cardinality({i \in DOMAIN outcome : outcome[i] \in {"deleted", "gone"}})

error_count(outcome) == Cardinality({i \in DOMAIN outcome : outcome[i] = "failed"})

\* if !files_to_delete.is_empty() { delete_files_from_target(...)? }
backup_dataset_delete ==
    /\ pc = "ds_delete"
    /\ IF files_to_delete = <<>>
       THEN /\ pc' = "ds_sync"
            /\ UNCHANGED ops
       ELSE \E outcome \in [1..Len(files_to_delete) -> DeleteOutcomes] :
              /\ ops' = ops \o delete_files_from_target(files_to_delete, outcome)
              /\ pc' = OnResult(error_count(outcome) = 0, "ds_sync")
    /\ UNCHANGED << world, history, locals, result, hist0 >>

\* if !files_to_sync.is_empty() { get_snapshot_mountpoint(&latest_snapshot)?; ... }
backup_dataset_sync_resolve ==
    /\ pc = "ds_sync"
    /\ IF files_to_sync = <<>>
       THEN /\ pc' = "ret_ok"
            /\ applied' = TRUE
            /\ UNCHANGED << ops, source_path >>
       ELSE /\ Resolve("ds_sync_rsync")
            /\ UNCHANGED applied
    /\ UNCHANGED << world, history, last_backup, latest_snapshot, rows, mode, changes,
                    dataset_mountpoint, files_to_sync, files_to_delete, guards,
                    result, hist0, trees >>

\* run_rsync_with_file_list(&source_path, &target_dir, &files_to_sync)?
backup_dataset_sync ==
    /\ pc = "ds_sync_rsync"
    /\ \E ok \in BOOLEAN :
         /\ Go(OnResult(ok, "ret_ok"),
               Op("rsync_list", ListedPaths(files_to_sync), IF ok THEN "ok" ELSE "err"))
         /\ applied' = ok
    /\ UNCHANGED << world, history, last_backup, latest_snapshot, rows, mode, changes,
                    dataset_mountpoint, files_to_sync, files_to_delete, guards,
                    result, hist0, trees, source_path >>

\* ------------------------------------------------------------ backup_restic
backup_restic_check_target ==
    /\ pc = "check_target"
    /\ cur.kind = "restic"
    /\ \E t \in TargetStates :
         Go(OnResult(check_target_directory(t), "query"), Op("check_target", t, "done"))
    /\ UNCHANGED << world, history, locals, result, hist0 >>

\* `if changes.is_empty() { .. } else { run_rsync_with_file_list(..)? }` and
\* the record_successful_backup call that follows the if in both cases
backup_restic_after_diff(c) == IF c[1] = <<>> THEN "rs_inc_record" ELSE "rs_inc_rsync"

\* first step of each arm of `match last_backup` in backup_restic
backup_restic_arm_skip_records(m) ==
    CASE m = "Full" -> "rs_full_mkdir"
      [] m = "Skip" -> "rs_inc_record"
      [] m = "Incremental" -> "rs_inc_mkdir"

backup_restic_arm(m) ==
    CASE m = "Full" -> "rs_full_mkdir"
      [] m = "Skip" -> "ret_ok"
      [] m = "Incremental" -> "rs_inc_mkdir"

backup_restic_match ==
    /\ pc = "match"
    /\ cur.kind = "restic"
    /\ mode' = DetermineMode(last_backup, latest_snapshot)
    /\ pc' = backup_restic_arm(mode')
    /\ UNCHANGED << world, history, last_backup, latest_snapshot, rows, changes,
                    dataset_mountpoint, files_to_sync, files_to_delete, guards,
                    applied, ops, result, hist0, trees, source_path >>

\* mount_restic_snapshot: the restic mount process is spawned, and after the
\* wait the mount is ready (a guard is returned), or it is not (the child is
\* killed, Err), or the process could not be spawned (Err)
MountOutcomes == {"ready", "not_ready", "spawn_err"}

mount_restic_snapshot_no_kill(snapshot_id, mount_point, out) ==
    << Op("mount", <<mount_point, snapshot_id>>, out) >>

mount_restic_snapshot(snapshot_id, mount_point, out) ==
    IF out = "not_ready"
    THEN << Op("mount", <<mount_point, snapshot_id>>, out), Op("kill", mount_point, "done") >>
    ELSE << Op("mount", <<mount_point, snapshot_id>>, out) >>

\* the `?` on mount_restic_snapshot's result: the caller goes on to read the
\* mount only when the function returned the guard
after_mount_any(out, next) == next

after_mount(out, next) == OnResult(out = "ready", next)

Mount(snapshot_id, mount_point, next) ==
    \E out \in MountOutcomes :
        /\ ops' = ops \o mount_restic_snapshot(snapshot_id, mount_point, out)
        /\ guards' = IF out = "ready" THEN Append(guards, mount_point) ELSE guards
        /\ pc' = after_mount(out, next)

\* fs::create_dir_all(&mount_point)? of the full arm
backup_restic_full_mkdir ==
    /\ pc = "rs_full_mkdir"
    /\ \E ok \in BOOLEAN :
         Go(OnResult(ok, "rs_full_mount"), Op("mkdir", MountLatest, IF ok THEN "ok" ELSE "err"))
    /\ UNCHANGED << world, history, locals, result, hist0 >>

\* let _mount_guard = mount_restic_snapshot(repository, &latest_snapshot, &mount_point)?
backup_restic_full_mount ==
    /\ pc = "rs_full_mount"
    /\ Mount(latest_snapshot, MountLatest, "rs_full_rsync")
    /\ UNCHANGED << world, history, last_backup, latest_snapshot, rows, mode, changes,
                    dataset_mountpoint, files_to_sync, files_to_delete, applied,
                    result, hist0, trees, source_path >>

\* run_rsync(&source_path, &restic_config.target_dir)?
backup_restic_full_rsync ==
    /\ pc = "rs_full_rsync"
    /\ \E ok \in BOOLEAN :
         /\ Go(OnResult(ok, "rs_full_record"),
               Op("rsync_all", MountLatest, IF ok THEN "ok" ELSE "err"))
         /\ applied' = ok
    /\ UNCHANGED << world, history, last_backup, latest_snapshot, rows, mode, changes,
                    dataset_mountpoint, files_to_sync, files_to_delete, guards,
                    result, hist0, trees, source_path >>

\* record_successful_backup(conn, "restic", repository, &latest_snapshot, target_dir)?
\* at the end of the full arm and at the end of the incremental arm
backup_restic_record ==
    /\ pc \in {"rs_full_record", "rs_inc_record"}
    /\ \E out \in record_successful_backup(history, Rec(cur, latest_snapshot)) :
         /\ history' = out[2]
         /\ Go(OnResult(out[1] = "ok", "ret_ok"), Op("record", latest_snapshot, out[1]))
    /\ UNCHANGED << world, locals, result, hist0 >>

\* the two fs::create_dir_all calls of the incremental arm
backup_restic_inc_mkdir ==
    /\ pc = "rs_inc_mkdir"
    /\ \/ Go("ret_err", Op("mkdir", MountOld, "err"))
       \/ /\ ops' = ops \o << Op("mkdir", MountOld, "ok"), Op("mkdir", MountNew, "err") >>
          /\ pc' = "ret_err"
       \/ /\ ops' = ops \o << Op("mkdir", MountOld, "ok"), Op("mkdir", MountNew, "ok") >>
          /\ pc' = "rs_mount_old"
    /\ UNCHANGED << world, history, locals, result, hist0 >>

\* let _mount_guard_old = mount_restic_snapshot(repository, &last_snap, &mount_old)?
backup_restic_mount_old ==
    /\ pc = "rs_mount_old"
    /\ Mount(last_backup, MountOld, "rs_mount_new")
    /\ UNCHANGED << world, history, last_backup, latest_snapshot, rows, mode, changes,
                    dataset_mountpoint, files_to_sync, files_to_delete, applied,
                    result, hist0, trees, source_path >>

\* let _mount_guard_new = mount_restic_snapshot(repository, &latest_snapshot, &mount_new)?
backup_restic_mount_new ==
    /\ pc = "rs_mount_new"
    /\ Mount(latest_snapshot, MountNew, "rs_diff")
    /\ UNCHANGED << world, history, last_backup, latest_snapshot, rows, mode, changes,
                    dataset_mountpoint, files_to_sync, files_to_delete, applied,
                    result, hist0, trees, source_path >>

\* get_restic_diff_via_rsync(&mount_old, &mount_new)? returns the pair
\* (added_modified, deleted).  backup_restic uses the pair where it needs a
\* list of files: the list it tests and syncs is added_modified, and deleted
\* is never read ("Deletions would need to be handled separately").
backup_restic_diff ==
    /\ pc = "rs_diff"
    /\ \/ /\ Go("ret_err", Op("diff", <<MountOld, MountNew>>, "err"))
          /\ UNCHANGED << changes, trees, source_path >>
       \/ \E t \in Trees :
            /\ trees' = t
            /\ changes' = get_restic_diff_via_rsync(t)
            /\ Go(backup_restic_after_diff(changes'), Op("diff", <<MountOld, MountNew>>, "ok"))
    /\ UNCHANGED << world, history, last_backup, latest_snapshot, rows, mode,
                    dataset_mountpoint, files_to_sync, files_to_delete, guards,
                    applied, result, hist0, source_path >>

\* run_rsync_with_file_list(&source_path, &restic_config.target_dir, &changes)?
backup_restic_inc_rsync ==
    /\ pc = "rs_inc_rsync"
    /\ \E ok \in BOOLEAN :
         /\ Go(OnResult(ok, "rs_inc_record"),
               Op("rsync_list", ListedPaths(changes[1]), IF ok THEN "ok" ELSE "err"))
         /\ applied' = ok
    /\ UNCHANGED << world, history, last_backup, latest_snapshot, rows, mode, changes,
                    dataset_mountpoint, files_to_sync, files_to_delete, guards,
                    result, hist0, trees, source_path >>

\* ------------------------------------------------------------ specification
Next ==
    \/ main_start
    \/ main_exit
    \/ main_call
    \/ main_next
    \/ main_done
    \/ get_last_backed_up_snapshot_query
    \/ get_last_backed_up_snapshot_next
    \/ get_latest_snapshot
    \/ backup_return
    \/ backup_dataset_check_target
    \/ backup_dataset_check_mounted
    \/ backup_dataset_match
    \/ backup_dataset_full_resolve
    \/ backup_dataset_full_rsync
    \/ backup_dataset_full_record
    \/ backup_dataset_diff
    \/ backup_dataset_extract
    \/ backup_dataset_delete
    \/ backup_dataset_sync_resolve
    \/ backup_dataset_sync
    \/ backup_restic_check_target
    \/ backup_restic_match
    \/ backup_restic_full_mkdir
    \/ backup_restic_full_mount
    \/ backup_restic_full_rsync
    \/ backup_restic_record
    \/ backup_restic_inc_mkdir
    \/ backup_restic_mount_old
    \/ backup_restic_mount_new
    \/ backup_restic_diff
    \/ backup_restic_inc_rsync

Spec == Init /\ [][Next]_vars

\* A configuration with a dataset and a restic repository, on a new database
\* or on the database left by a run that mirrored snapshot 1 of each source.
\* Every call that is issued returns, so the process keeps taking steps.
InitBoth ==
    /\ config = <<DS, RS>>
    /\ history \in {<<>>, <<Rec(DS, 1), Rec(RS, 1)>>}
    /\ Start

SpecBoth == InitBoth /\ [][Next]_vars /\ WF_vars(Next)

\* ------------------------------------------------------------------- claims
\* a reconciliation is running or has just returned: cur is its source
Active == pc \notin {"stopped", "exited", "main_loop"}

Returned == pc = "returned"

Has(log, kinds) == \E i \in 1..Len(log) : log[i].op \in kinds

Failed(e) ==
    \/ e.op \in {"rsync_all", "rsync_list", "resolve", "mkdir", "diff", "mountpoint"} /\ e.res = "err"
    \/ e.op = "mount" /\ e.res # "ready"
    \/ e.op = "delete" /\ e.res = "failed"

SetOf(s) == {s[i] : i \in 1..Len(s)}

\* C1: whenever a Full or Incremental reconciliation has completed its
\* transfer step successfully and returns Ok, exactly one record for
\* (source, head) has been appended to the history since it began.
C1_RecordAfterApply ==
    (Returned /\ result = "Ok" /\ mode \in {"Full", "Incremental"} /\ applied)
        => history = Append(hist0, Rec(cur, latest_snapshot))

\* C2: the mode is Full when the baseline is none, Skip when the baseline
\* equals the head, Incremental from baseline to head otherwise; it is chosen
\* after the head query succeeded, and the plan reads the snapshots it names.
C2_ModeSelection ==
    (Active /\ mode # "none") =>
        /\ Has(ops, {"latest"}) /\ latest_snapshot \in Snaps
        /\ last_backup = NoSnap => mode = "Full"
        /\ (last_backup # NoSnap /\ last_backup = latest_snapshot) => mode = "Skip"
        /\ (last_backup # NoSnap /\ last_backup # latest_snapshot) => mode = "Incremental"
        /\ \A i \in 1..Len(ops) :
              /\ ops[i].op = "diff" =>
                    /\ mode = "Incremental"
                    /\ cur.kind = "dataset" => ops[i].arg = <<last_backup, latest_snapshot>>
              /\ ops[i].op = "mount" =>
                    \/ mode = "Full" /\ ops[i].arg = <<MountLatest, latest_snapshot>>
                    \/ mode = "Incremental" /\ ops[i].arg = <<MountOld, last_backup>>
                    \/ mode = "Incremental" /\ ops[i].arg = <<MountNew, latest_snapshot>>
              /\ ops[i].op = "rsync_all" => mode = "Full"
              /\ ops[i].op \in {"rsync_list", "delete"} => mode = "Incremental"

C2_Witness ==
    /\ Returned /\ mode = "Incremental" /\ cur.kind = "restic"
    /\ \E i \in 1..Len(ops) : ops[i].op = "diff" /\ ops[i].res = "ok"

\* positions in hist0 of the records of the current source; a larger
\* position is a more recent record
MyPos == {i \in 1..Len(hist0) :
            hist0[i].backup_type = cur.kind /\ hist0[i].source_name = cur.name}

PosOf(snap) == CHOOSE i \in MyPos : hist0[i].snapshot_name = snap

\* C3: the existence checks go through the records of the source from the
\* most recent one on, without a gap; only the last check can have returned
\* true, and then its snapshot is the baseline and no older record is checked;
\* if no check returned true the baseline is none.
C3_ValidationWalk ==
    Active =>
        LET checks == OpsOf(ops, {"exists"})
            n == Len(checks)
        IN /\ \A k \in 1..n :
                /\ \E i \in MyPos : hist0[i].snapshot_name = checks[k].arg
                /\ Cardinality({i \in MyPos : i > PosOf(checks[k].arg)}) = k - 1
                /\ k < n => checks[k].res # "true"
           /\ pc \notin {"check_target", "check_mounted", "query", "walk"} =>
                last_backup = IF n > 0 /\ checks[n].res = "true"
                              THEN checks[n].arg ELSE NoSnap
           /\ pc \in {"check_target", "check_mounted", "query", "walk"} =>
                /\ last_backup = NoSnap
                /\ \A k \in 1..n : checks[k].res # "true"

C3_Witness ==
    /\ Returned
    /\ LET checks == OpsOf(ops, {"exists"})
       IN /\ Len(checks) = 2
          /\ checks[1].res = "false"
          /\ checks[2].res = "true"
          /\ last_backup = checks[2].arg
          /\ Cardinality(MyPos) = 2

\* C4: a Skip issues no delete, no sync, no diff and no mount, appends no
\* record and returns Ok with the history as it was.
C4_SkipDoesNothing ==
    (Active /\ mode = "Skip") =>
        /\ ~Has(ops, {"delete", "rsync_all", "rsync_list", "mount", "mkdir", "diff",
                       "record", "unmount", "resolve"})
        /\ history = hist0
        /\ pc \in {"ret_ok", "returned"}
        /\ Returned => result = "Ok"

C4_Witness ==
    Returned /\ mode = "Skip" /\ result = "Ok" /\ last_backup = latest_snapshot

\* C5: the history changes only by one record for the head, appended after
\* every step of the plan succeeded; a reconciliation in which the mirror,
\* the file-list sync, the deletion pass, a root resolution, a mount or the
\* diff failed returns Err and leaves the history as it was.
C5_RecordOnlyAfterApply ==
    Active =>
        /\ history # hist0 =>
              /\ history = Append(hist0, Rec(cur, latest_snapshot))
              /\ \A i \in 1..Len(ops) : ~Failed(ops[i])
              /\ mode = "Full" =>
                    \E i \in 1..Len(ops) : ops[i].op = "rsync_all" /\ ops[i].res = "ok"
              /\ (mode = "Incremental" /\ changes[1] # <<>>) =>
                    \E i \in 1..Len(ops) : ops[i].op = "rsync_list" /\ ops[i].res = "ok"
        /\ (\E i \in 1..Len(ops) : Failed(ops[i])) =>
              /\ history = hist0
              /\ pc \in {"ret_err", "returned"}
              /\ Returned => result = "Err"

C5_Witness ==
    /\ Returned /\ result = "Err" /\ history = hist0
    /\ \E i \in 1..Len(ops) : ops[i].op = "rsync_list" /\ ops[i].res = "err"

\* C6: a record operation whose (kind, source, snapshot) key is already in
\* the history returns success and leaves the history unchanged.
C6_RecordIdempotent ==
    Active =>
        \A i \in 1..Len(ops) :
            (/\ ops[i].op = "record"
             /\ \E j \in 1..Len(hist0) : Key(hist0[j]) = Key(Rec(cur, ops[i].arg)))
                => (ops[i].res = "ok" /\ history = hist0)

\* the deletions of the incremental plan: files_to_delete of backup_dataset,
\* the files of the old restic tree that the new tree lacks
Deletions ==
    IF cur.kind = "dataset" THEN files_to_delete ELSE PathList(trees.old \ trees.new)

\* C7: in an incremental reconciliation with non-empty deletions, when the
\* file-list sync begins a delete has been issued for every deletion of the
\* plan, and no delete is issued after a sync.
C7_DeleteBeforeSync ==
    (Active /\ mode = "Incremental") =>
        \A s \in 1..Len(ops) :
            ops[s].op = "rsync_list" =>
                /\ \A d \in 1..Len(ops) : ops[d].op = "delete" => d < s
                /\ \A k \in 1..Len(Deletions) :
                      \E d \in 1..(s - 1) : ops[d].op = "delete" /\ ops[d].arg = Deletions[k]

\* C8: for the change list [+ /a, M /b, - /c, R /d -> /e] with mount root
\* /mnt the sync list is {a, b, e} and the deletion list is {c}.
C8_PartitionExample ==
    (/\ Active
     /\ pc \in {"ds_delete", "ds_sync", "ds_sync_rsync", "ret_ok", "ret_err", "returned"}
     /\ dataset_mountpoint = MntRoot
     /\ changes = ExampleChanges)
        => /\ SetOf(files_to_sync) = {<<"a">>, <<"b">>, <<"e">>}
           /\ SetOf(files_to_delete) = {<<"c">>}

\* C9: every path in the sync list and in the deletion list is non-empty and
\* does not begin with '/'.
C9_RelativePaths ==
    \A p \in SetOf(files_to_sync) \cup SetOf(files_to_delete) :
        p # <<>> /\ p[1] # "/"

\* C10: when the reconciliation has returned no guard is left, every mount
\* that became ready is followed by exactly one unmount of its mount point,
\* and nothing else is unmounted; before the return every ready mount is
\* held by a guard.
C10_UnmountOnce ==
    Active =>
        LET ready == {i \in 1..Len(ops) : ops[i].op = "mount" /\ ops[i].res = "ready"}
            unmounts == {j \in 1..Len(ops) : ops[j].op = "unmount"}
        IN /\ Returned =>
                /\ guards = <<>>
                /\ \A i \in ready :
                      Cardinality({j \in unmounts : j > i /\ ops[j].arg = ops[i].arg[1]}) = 1
                /\ Cardinality(unmounts) = Cardinality(ready)
           /\ ~Returned =>
                /\ unmounts = {}
                /\ Len(guards) = Cardinality(ready)
                /\ \A i \in ready : \E g \in 1..Len(guards) : guards[g] = ops[i].arg[1]

C10_Witness ==
    /\ Returned /\ result = "Err"
    /\ \E i, j, k \in 1..Len(ops) :
          /\ i < j /\ j < k
          /\ ops[i].op = "mount" /\ ops[i].res = "ready" /\ ops[i].arg[1] = MountOld
          /\ ops[j].op = "mount" /\ ops[j].res = "not_ready" /\ ops[j].arg[1] = MountNew
          /\ ops[k].op = "unmount" /\ ops[k].arg = MountOld

\* C11: when a mount is not ready after the wait, the started mount process
\* is killed right after, nothing but unmounts of earlier guards follows, the
\* reconciliation returns Err, no transfer is issued and no record is appended.
C11_MountTimeout ==
    Active =>
        \A i \in 1..Len(ops) :
            (ops[i].op = "mount" /\ ops[i].res = "not_ready") =>
                /\ i < Len(ops)
                /\ ops[i + 1] = Op("kill", ops[i].arg[1], "done")
                /\ \A j \in (i + 2)..Len(ops) : ops[j].op = "unmount"
                /\ ~Has(ops, {"rsync_all", "rsync_list", "delete", "record"})
                /\ history = hist0
                /\ pc \in {"ret_err", "returned"}
                /\ Returned => result = "Err"

C11_Witness ==
    /\ Returned /\ result = "Err" /\ mode = "Full" /\ history = hist0
    /\ \E i \in 1..Len(ops) :
          /\ ops[i] = Op("mount", <<MountLatest, latest_snapshot>>, "not_ready")
          /\ ops[i + 1] = Op("kill", MountLatest, "done")
          /\ i + 1 = Len(ops)

\* C12: the deletion pass attempts every path of the deletion list, in order,
\* also after an earlier path failed; a path already gone is not an error;
\* the pass returns Err exactly when at least one attempted deletion failed.
C12_BestEffortDelete ==
    (Active /\ Has(ops, {"delete"})) =>
        LET dels == OpsOf(ops, {"delete"})
            failed == \E k \in 1..Len(dels) : dels[k].res = "failed"
            first == CHOOSE i \in 1..Len(ops) :
                        ops[i].op = "delete" /\ \A j \in 1..(i - 1) : ops[j].op # "delete"
        IN /\ Len(dels) = Len(files_to_delete)
           /\ \A k \in 1..Len(dels) :
                 /\ dels[k].arg = files_to_delete[k]
                 /\ ops[first + k - 1] = dels[k]
           /\ failed =>
                 /\ Len(ops) = first + Len(dels) - 1
                 /\ pc \in {"ret_err", "returned"}
                 /\ Returned => result = "Err"
           /\ ~failed =>
                 IF Len(ops) = first + Len(dels) - 1
                 THEN pc \in {"ds_sync", "ret_ok", "returned"} /\ (Returned => result = "Ok")
                 ELSE ops[first + Len(dels)].op \in {"resolve", "rsync_list"}

C12_Witness ==
    /\ Returned /\ result = "Err"
    /\ OpsOf(ops, {"delete"}) =
          << Op("delete", <<"a">>, "failed"), Op("delete", <<"b">>, "gone") >>

\* C13: an existence check that returned an error does not end the walk and
\* does not fail the reconciliation: the walk goes on to the next older
\* record of the source, and ends without a baseline only when no older
\* record is left (or the database fails to deliver the next row).
C13_CheckErrorContinues ==
    Active =>
        LET all == HistoryRows(hist0, cur.kind, cur.name)
        IN \A i \in 1..Len(ops) :
             (ops[i].op = "exists" /\ ops[i].res = "err") =>
                LET k == Len(OpsOf(SubSeq(ops, 1, i), {"exists"}))
                    older == SubSeq(all, k + 1, Len(all))
                IN /\ ops[i].arg = all[k]
                   /\ i = Len(ops) => (pc = "walk" /\ rows = older /\ result = "none")
                   /\ i < Len(ops) =>
                        IF older = <<>>
                        THEN ops[i + 1].op = "rows_end"
                        ELSE \/ ops[i + 1].op = "exists" /\ ops[i + 1].arg = older[1]
                             \/ ops[i + 1].op = "rows_next"

C13_Witness ==
    /\ Returned /\ result = "Ok" /\ mode = "Incremental"
    /\ LET checks == OpsOf(ops, {"exists"})
       IN /\ Len(checks) = 2
          /\ checks[1].res = "err"
          /\ checks[2].res = "true"
          /\ last_backup = checks[2].arg

\* the diff of an incremental reconciliation succeeded and its change list
\* is empty
EmptyDiff ==
    /\ \E i \in 1..Len(ops) : ops[i].op = "diff" /\ ops[i].res = "ok"
    /\ changes = IF cur.kind = "dataset" THEN <<>> ELSE << <<>>, <<>> >>

\* C14: when the change list between baseline and head is empty, the
\* reconciliation issues no delete and no sync and appends no record, for
\* dataset sources and for restic sources alike.
C14_EmptyChangesNoRecord ==
    (Active /\ EmptyDiff) =>
        /\ ~Has(ops, {"delete", "rsync_all", "rsync_list", "record"})
        /\ history = hist0

\* C15: in an incremental reconciliation of a restic source the deleted list
\* of the diff holds every file of the baseline's tree that the head's tree
\* lacks, and when the reconciliation returns Ok a delete has been issued
\* for each of them.
C15_ResticDeletions ==
    (/\ Active /\ cur.kind = "restic" /\ mode = "Incremental"
     /\ \E i \in 1..Len(ops) : ops[i].op = "diff" /\ ops[i].res = "ok")
        => /\ SetOf(changes[2]) = trees.old \ trees.new
           /\ (Returned /\ result = "Ok") =>
                 \A p \in trees.old \ trees.new :
                     \E d \in 1..Len(ops) : ops[d].op = "delete" /\ ops[d].arg = p

\* C16: in every state the history holds at most one record for each
\* (backup_type, source_name, snapshot_name).
C16_UniqueKey ==
    \A i, j \in 1..Len(history) : Key(history[i]) = Key(history[j]) => i = j

\* a record whose key the history already held was attempted and rejected
C16_Witness ==
    /\ Returned
    /\ Len(history) >= 2
    /\ \E i \in 1..Len(ops) :
          /\ ops[i].op = "record" /\ ops[i].res = "err"
          /\ \E j \in 1..Len(hist0) : Key(hist0[j]) = Key(Rec(cur, ops[i].arg))
    /\ history = hist0

\* C17: the target check is the first call of a reconciliation; when the
\* target is missing or is not a directory it is also the last one: no
\* readiness check, history query, existence check, head query, mount,
\* transfer or record follows, the history is as it was, and Err is returned.
C17_TargetCheckFirst ==
    Active =>
        /\ pc = "check_target" <=> ops = <<>>
        /\ ops # <<>> =>
              /\ ops[1].op = "check_target"
              /\ \A i \in 2..Len(ops) : ops[i].op # "check_target"
              /\ ops[1].arg # "dir" =>
                    /\ Len(ops) = 1
                    /\ history = hist0
                    /\ pc \in {"ret_err", "returned"}
                    /\ Returned => result = "Err"

C17_Witness ==
    /\ Returned /\ result = "Err" /\ history = hist0
    /\ ops = << Op("check_target", "file", "done") >>
    /\ exists[cur.name] # {}

\* the sources of the configuration, in the order main goes through them
SourcesInOrder == [i \in 1..Len(config) |-> config[i].name]

\* C18 (state part): while the loops run, the sources called so far are the
\* first idx - 1 sources of the configuration, each once, each with the
\* result it returned; at "Done!" every source has been called exactly once.
C18_EverySourceOnce ==
    /\ pc \notin {"stopped", "exited"} =>
          /\ idx = Len(attempts) + 1
          /\ Len(attempts) <= Len(config)
          /\ \A i \in 1..Len(attempts) :
                /\ attempts[i].name = SourcesInOrder[i]
                /\ attempts[i].result \in {"Ok", "Err"}
          /\ Active => idx <= Len(config)
    /\ (pc = "stopped" /\ run > 0) =>
          [i \in 1..Len(attempts) |-> attempts[i].name] = SourcesInOrder

\* C18: a run that has entered the loops attempts every configured source
\* exactly once, one after the other, whatever the earlier ones returned,
\* and reaches "Done!".
C18_RunCompletes ==
    /\ []C18_EverySourceOnce
    /\ (pc = "main_loop") ~> (pc = "stopped")

C18_Witness ==
    /\ pc = "stopped"
    /\ attempts = << [name |-> DS.name, result |-> "Err"], [name |-> RS.name, result |-> "Ok"] >>
    /\ Len(history) = 1

\* a call whose failure makes backup_dataset or backup_restic return Err
Aborting(e) ==
    \/ Failed(e)
    \/ e.op = "check_target" /\ e.arg # "dir"
    \/ e.op = "mounted" /\ e.res # "yes"
    \/ e.op = "latest" /\ e.res # "some"
    \/ e.op = "record" /\ e.res = "err"

\* a failure of the history query: prepare, query or fetching a row
QueryFailed(e) == e.op \in {"query", "rows_next"} /\ e.res = "err"

\* after the failed call only the rest of the deletion pass, the kill of a
\* mount process and the unmounts of the guards are issued
AbortsAt(i) ==
    /\ \A j \in (i + 1)..Len(ops) :
          \/ ops[j].op \in {"kill", "unmount"}
          \/ ops[j].op = "delete" /\ ops[i].op = "delete"
    /\ history = hist0
    /\ pc \in {"ret_err", "returned"}
    /\ Returned => result = "Err"

C20_NoSnapshots ==
    Active =>
        \A i \in 1..Len(ops) :
            (ops[i].op = "latest" /\ ops[i].res = "none") =>
                /\ i = Len(ops)
                /\ mode = "none"
                /\ ~Has(ops, {"delete", "rsync_all", "rsync_list", "record", "mount", "diff"})
                /\ history = hist0
                /\ pc \in {"ret_err", "returned"}
                /\ Returned => result = "Err"

C20_Witness ==
    /\ Returned /\ result = "Err" /\ history = hist0
    /\ last_backup # NoSnap
    /\ ops[Len(ops)] = Op("latest", NoSnap, "none")

\* C21: a dataset that is not mounted (or whose readiness cannot be read)
\* makes the reconciliation return Err right after the readiness check, which
\* follows the target check: no history query, no head query, no transfer.
\* A restic source has no readiness check: the history query follows the
\* target check.
C21_SourceNotReady ==
    Active =>
        /\ \A i \in 1..Len(ops) :
              ops[i].op = "mounted" =>
                 /\ cur.kind = "dataset" /\ i = 2
                 /\ ops[i].res # "yes" =>
                       /\ Len(ops) = 2
                       /\ history = hist0
                       /\ pc \in {"ret_err", "returned"}
                       /\ Returned => result = "Err"
        /\ Len(ops) >= 2 =>
              ops[2].op = IF cur.kind = "dataset" THEN "mounted" ELSE "query"
        /\ (Len(ops) >= 3 /\ cur.kind = "dataset") => ops[3].op = "query"

C21_Witness ==
    /\ Returned /\ result = "Err" /\ cur.kind = "dataset"
    /\ ops = << Op("check_target", "dir", "done"), Op("mounted", <<>>, "no") >>
    /\ exists[cur.name] # {}

\* C22: a reconciliation never issues both a whole-root mirror and a
\* file-list sync.  A full backup issues at most one whole-root mirror,
\* exactly one when it returns Ok, and no file-list sync, diff or delete; an
\* incremental backup issues no whole-root mirror and at most one file-list
\* sync.
C22_FullOrList ==
    Active =>
        LET mirrors == Len(OpsOf(ops, {"rsync_all"}))
            lists == Len(OpsOf(ops, {"rsync_list"}))
        IN /\ mirrors = 0 \/ lists = 0
           /\ mirrors <= 1 /\ lists <= 1
           /\ mode = "Full" =>
                 /\ ~Has(ops, {"rsync_list", "delete", "diff"})
                 /\ (Returned /\ result = "Ok") => mirrors = 1
                 /\ Has(ops, {"record"}) => mirrors = 1
           /\ mode = "Incremental" => mirrors = 0
           /\ mode \in {"none", "Skip"} => mirrors = 0 /\ lists = 0

C22_Witness ==
    /\ Returned /\ result = "Ok" /\ mode = "Full" /\ cur.kind = "dataset"
    /\ Len(OpsOf(ops, {"rsync_all"})) = 1
    /\ hist0 # <<>>

\* the number of '@' in a snapshot name, and what follows the first one
AtCount(name) == Cardinality({k \in 1..Len(name) : name[k] = "@"})

AfterAt(name) ==
    LET k == CHOOSE i \in 1..Len(name) : name[i] = "@" /\ \A j \in 1..(i - 1) : name[j] # "@"
    IN SubSeq(name, k + 1, Len(name))

\* C23: in a full backup of a dataset the root is resolved from the head's
\* name: a name that does not hold exactly one '@' is an error, the last call
\* of a reconciliation that returns Err with no mirror and no record; for a
\* name container@label the one whole-root mirror follows the resolution and
\* reads <mountpoint>/.zfs/snapshot/<label>/; when the reconciliation returns
\* Ok the record of the head has been appended after the mirror.
C23_FullBackupOfDataset ==
    (Active /\ cur.kind = "dataset" /\ mode = "Full") =>
        /\ \A i \in 1..Len(ops) :
              ops[i].op = "resolve" =>
                 /\ ops[i].arg \in SnapshotNames(latest_snapshot)
                 /\ AtCount(ops[i].arg) # 1 =>
                       /\ ops[i].res = "err" /\ i = Len(ops)
                       /\ history = hist0
                       /\ pc \in {"ret_err", "returned"}
                       /\ Returned => result = "Err"
                 /\ ops[i].res = "err" => ~Has(ops, {"rsync_all", "record"})
                 /\ ops[i].res = "ok" =>
                       \E m \in Mountpoints :
                           source_path = m \o ZfsSnapshotDir \o AfterAt(ops[i].arg) \o Slash
        /\ \A j \in 1..Len(ops) :
              ops[j].op = "rsync_all" =>
                 /\ ops[j - 1].op = "resolve" /\ ops[j - 1].res = "ok"
                 /\ ops[j].arg = source_path
        /\ (Returned /\ result = "Ok") =>
              /\ history = Append(hist0, Rec(cur, latest_snapshot))
              /\ LET n == Len(ops)
                 IN /\ ops[n] = Op("record", latest_snapshot, "ok")
                    /\ ops[n - 1] = Op("rsync_all", source_path, "ok")
                    /\ ops[n - 2].op = "resolve"

C23_Witness ==
    /\ Returned /\ result = "Ok" /\ cur.kind = "dataset" /\ mode = "Full"
    /\ hist0 = <<>> /\ latest_snapshot = 1
    /\ history = << Rec(DS, 1) >>
    /\ \E i \in 1..Len(ops) :
          /\ ops[i].op = "rsync_all"
          /\ ops[i].arg = MntRoot \o ZfsSnapshotDir \o <<"s", "1", "/">>
          /\ ops[i - 1] = Op("resolve", DSName \o At \o <<"s", "1">>, "ok")

\* C24: the history is append-only: every step leaves the rows there were,
\* in their order and with their values, and at most adds one row at the end.
C24_AppendOnly ==
    [][/\ Len(history') \in {Len(history), Len(history) + 1}
       /\ SubSeq(history', 1, Len(history)) = history]_vars

\* after three runs the history holds the rows of the first two runs below
\* the row of the third
C24_Witness ==
    /\ Returned /\ result = "Ok"
    /\ Len(hist0) = 2 /\ Len(history) = 3
    /\ SubSeq(history, 1, 2) = hist0

\* the path is located under the target directory
InsideTarget(path) == StartsWith(path, TargetDir \o Slash)

\* C25: every delete of the deletion pass removes a path inside the
\* configured target directory, whatever the change list and the mount root.
C25_DeletesInsideTarget ==
    (Active /\ cur.kind = "dataset") =>
        \A i \in 1..Len(ops) :
            ops[i].op = "delete" => InsideTarget(join(TargetDir, ops[i].arg))

\* get_last_backed_up_snapshot when the query succeeds and every
\* snapshot_exists call answers Ok with the truth: the newest row whose
\* snapshot is present
RECURSIVE NewestPresent(_, _)
NewestPresent(rs, present) ==
    IF rs = <<>> THEN NoSnap
    ELSE IF Head(rs) \in present THEN Head(rs)
    ELSE NewestPresent(Tail(rs), present)

\* the mode a reconciliation of the current source determines from the
\* history as it is now, with the snapshots and the head of this call
SecondMode ==
    DetermineMode(NewestPresent(HistoryRows(history, cur.kind, cur.name), exists[cur.name]),
                  latest_snapshot)

\* C26: after a Full or an Incremental reconciliation returned success, a
\* second reconciliation of the source with the same head and the same
\* existing snapshots is a Skip, for both source kinds.
C26_Converges ==
    (Returned /\ result = "Ok" /\ mode \in {"Full", "Incremental"}) => SecondMode = "Skip"

\* the path one line of zfs diff retires from the head: the path of a Removed
\* entry, the origin of a Renamed entry
RetiredOfLine(change) ==
    LET p == parse_zfs_diff_line(change)
        halves == Split(p[3], Arrow)
    IN IF ~p[1] THEN {}
       ELSE IF p[2] = "-" THEN {p[3]}
       ELSE IF p[2] = "R" /\ Len(halves) >= 2 THEN {halves[1]}
       ELSE {}

\* the paths, relative to the source's root, that the baseline holds and the
\* head lacks: for a dataset the retired paths of the change list that lie
\* under the mount root, for a restic source the files of the old tree that
\* the new tree lacks
Retired ==
    IF cur.kind = "dataset"
    THEN LET all == UNION {RetiredOfLine(changes[i]) : i \in 1..Len(changes)}
             under == {q \in all : StartsWith(q, dataset_mountpoint \o Slash)
                                    /\ Len(q) > Len(dataset_mountpoint) + 1}
         IN {strip_mountpoint_prefix(q, dataset_mountpoint) : q \in under}
    ELSE trees.old \ trees.new

\* the reconciliation has removed the path from the target, or found it gone
AbsentAfter(path) ==
    \E d \in 1..Len(ops) :
        /\ ops[d].op = "delete" /\ ops[d].res \in {"deleted", "gone"}
        /\ join(TargetDir, ops[d].arg) = join(TargetDir, path)

\* C27: when an incremental reconciliation whose target held the baseline's
\* files has applied its plan and returned Ok, the target holds the head's
\* files: every Removed path and the origin of every Renamed entry is absent
\* from the target.
C27_RetiredPathsAbsent ==
    (Returned /\ result = "Ok" /\ mode = "Incremental" /\ applied) =>
        \A path \in Retired : AbsentAfter(path)

\* the mount points a call of backup_restic reads from: the full mirror reads
\* the latest mount, the diff both mounts, the file-list sync the new mount
ReadsFrom(o) ==
    IF o.op = "rsync_all" THEN {o.arg}
    ELSE IF o.op = "diff" THEN {o.arg[1], o.arg[2]}
    ELSE IF o.op = "rsync_list" THEN {MountNew}
    ELSE {}

\* C28: for a restic source every diff and every sync that reads from a
\* mounted snapshot comes after that mount was found ready and before the
\* unmount of that mount point is issued.
C28_ReadsWhileMounted ==
    (Active /\ cur.kind = "restic") =>
        \A i \in 1..Len(ops) : \A m \in ReadsFrom(ops[i]) :
            /\ \E k \in 1..(i - 1) :
                  ops[k].op = "mount" /\ ops[k].arg[1] = m /\ ops[k].res = "ready"
            /\ \A u \in 1..Len(ops) :
                  (ops[u].op = "unmount" /\ ops[u].arg = m) => u > i

\* an incremental reconciliation that read both mounts for the diff and the
\* new mount for the sync, and unmounted both on its return
C28_Witness ==
    /\ Returned /\ cur.kind = "restic"
    /\ \E d, s, u, v \in 1..Len(ops) :
          /\ d < s /\ s < u /\ s < v
          /\ ops[d].op = "diff" /\ ops[s].op = "rsync_list"
          /\ ops[u].op = "unmount" /\ ops[u].arg = MountNew
          /\ ops[v].op = "unmount" /\ ops[v].arg = MountOld

====
